---- MODULE Spec2Model ----
(***************************************************************************)
(* Model of processmining_app_v1.py: the process-wide sample event log,   *)
(* validate_data and the five Dash callbacks that analyse either the      *)
(* shared log or an uploaded CSV.                                          *)
(*                                                                         *)
(* A DataFrame is a record from column name to a sequence of cell values, *)
(* all of one length; row labels are the positions 1..n.  Timestamps are  *)
(* counted in seconds.                                                     *)
(***************************************************************************)
EXTENDS Integers, Sequences, FiniteSets, TLC

VARIABLES event_log, log0, upload, last

vars == <<event_log, log0, upload, last>>

----------------------------------------------------------------------------
(* Bounds of the model *)

MaxUploadRows == 2
MaxLogRows == 3
MaxVarCases == 12

(* Program constants *)

NumCases == 5
MinDays == 1
MaxDays == 30
MinGap == 5
MaxGap == 60
Top == 10
HeadRows == 5

SecondsPerDay == 24 * 3600
Now == MaxDays * SecondsPerDay

----------------------------------------------------------------------------
(* Cell values *)

\* A missing case_id as read_csv delivers it (NaN); real case ids are 1, 2, ...
NaNCase == 0
\* A missing activity as read_csv delivers it.
NaNAct == "NaN"

\* Timestamp cells: a parseable string, an unparseable string, a missing value,
\* and after pd.to_datetime a datetime or NaT.
StrTs(t) == [k |-> "str", t |-> t]
BadTs == [k |-> "bad", t |-> 0]
NaNTs == [k |-> "nan", t |-> 0]
DtTs(t) == [k |-> "dt", t |-> t]
NaT == [k |-> "nat", t |-> 0]

\* Float cells: NaN or the exact quotient num / den.
NaNNum == [k |-> "nan", num |-> 0, den |-> 1]
Num(n, d) == [k |-> "num", num |-> n, den |-> d]

\* Python objects held in an object column: a str or a tuple of str.
PyStr(s) == [k |-> "str", v |-> <<s>>]
PyTuple(t) == [k |-> "tuple", v |-> t]

\* x != y between Python objects: a str never equals a tuple.
PyNe(x, y) == x # y

IsNullCase(c) == c = NaNCase
IsNullAct(a) == a = NaNAct
IsNullTs(ts) == ts.k \in {"nan", "nat"}

----------------------------------------------------------------------------
(* DataFrame helpers *)

NRows(df) == Len(df.case_id)
Rows(df) == 1..NRows(df)

\* The sequence s as an explicit tuple, each element evaluated once.
Tuple(s) == SubSeq(s, 1, Len(s))

FrameOf(rows) ==
    [case_id |-> Tuple([i \in 1..Len(rows) |-> rows[i].case_id]),
     activity |-> Tuple([i \in 1..Len(rows) |-> rows[i].activity]),
     timestamp |-> Tuple([i \in 1..Len(rows) |-> rows[i].timestamp])]

\* df[col] = values : replaces the column or adds it, in place.
SetCol(df, col, values) == (col :> values) @@ df

\* The frame with its rows taken in the order perm (a sequence of positions).
Take(df, perm) ==
    [c \in DOMAIN df |-> Tuple([i \in 1..Len(perm) |-> df[c][perm[i]]])] @@ <<>>

RECURSIVE SumOver(_, _)
SumOver(S, f) ==
    IF S = {} THEN 0
    ELSE LET x == CHOOSE y \in S : TRUE IN f[x] + SumOver(S \ {x}, f)

\* The elements of a finite set of integers in ascending order.
Ascending(S) ==
    [k \in 1..Cardinality(S) |->
        CHOOSE x \in S : Cardinality({y \in S : y < x}) = k - 1]

\* The row labels 1..n in order.
Index(n) == Tuple([i \in 1..n |-> i])

Range(s) == {s[i] : i \in DOMAIN s}

Reverse(s) == [i \in 1..Len(s) |-> s[Len(s) + 1 - i]]

\* The distinct elements of s in order of first appearance.
RECURSIVE Uniques(_)
Uniques(s) ==
    IF s = <<>> THEN <<>>
    ELSE LET r == Uniques(SubSeq(s, 1, Len(s) - 1))
         IN IF s[Len(s)] \in Range(r) THEN r ELSE Append(r, s[Len(s)])

\* Lexicographic <= on pairs of integers.
PairLe(a, b) == a[1] < b[1] \/ (a[1] = b[1] /\ a[2] <= b[2])

\* Stable ascending argsort of a sequence of integer pairs: each position is
\* inserted behind every position already placed whose key is not greater.
RECURSIVE ArgsortUpTo(_, _)
ArgsortUpTo(keys, n) ==
    IF n = 0 THEN <<>>
    ELSE LET perm == ArgsortUpTo(keys, n - 1)
             k == Cardinality({i \in 1..Len(perm) : PairLe(keys[perm[i]], keys[n])})
         IN SubSeq(perm, 1, k) \o <<n>> \o SubSeq(perm, k + 1, Len(perm))

StableArgsort(keys) == ArgsortUpTo(keys, Len(keys))

----------------------------------------------------------------------------
(* generate_sample_event_log *)

activities == <<"Start", "Review", "Approve", "End">>

\* The sample log when random.randint(1, 30) gave `days` and
\* random.randint(5, 60) gave `gap` (minutes) at every draw.
generate_sample_event_log(days, gap) ==
    FrameOf([i \in 1..(NumCases * Len(activities)) |->
        LET case == ((i - 1) \div Len(activities)) + 1
            j == ((i - 1) % Len(activities)) + 1
        IN [case_id |-> case,
            activity |-> activities[j],
            timestamp |-> StrTs(Now - days * SecondsPerDay + (j - 1) * gap * 60)]])

----------------------------------------------------------------------------
(* validate_data *)

\* pd.to_datetime of one cell that can be converted.
ToDatetime(ts) ==
    CASE ts.k = "str" -> DtTs(ts.t)
      [] ts.k = "nan" -> NaT
      [] OTHER -> ts

\* pd.to_datetime(df['timestamp']) when every cell can be converted.
ToDatetimeColumn(df) == Tuple([i \in Rows(df) |-> ToDatetime(df.timestamp[i])])

Unparseable(df) == \E i \in Rows(df) : df.timestamp[i].k = "bad"

HasNull(df) ==
    \E i \in Rows(df) :
        \/ IsNullAct(df.activity[i])
        \/ IsNullCase(df.case_id[i])
        \/ IsNullTs(df.timestamp[i])

TimestampMessage == "Timestamp column conversion failed"
MissingMessage == "Missing values in required columns"

\* validate_data with the null check made before the timestamp conversion.
validate_data_null_check_first(df) ==
    IF HasNull(df)
    THEN [exc |-> "ValueError", msg |-> MissingMessage, df |-> df]
    ELSE IF Unparseable(df)
    THEN [exc |-> "ValueError", msg |-> TimestampMessage, df |-> df]
    ELSE [exc |-> "none", msg |-> "",
          df |-> SetCol(df, "timestamp", ToDatetimeColumn(df))]

\* The outcome of validate_data(df): the exception raised ("none" on return),
\* its message, and the frame object df as the call leaves it (the timestamp
\* column is assigned in place before the null check).
validate_data(df) ==
    IF Unparseable(df)
    THEN [exc |-> "ValueError", msg |-> TimestampMessage, df |-> df]
    ELSE LET timestamp == ToDatetimeColumn(df)
             converted == SetCol(df, "timestamp", timestamp)
         IN IF HasNull(converted)
            THEN [exc |-> "ValueError", msg |-> MissingMessage, df |-> converted]
            ELSE [exc |-> "none", msg |-> "", df |-> converted]

----------------------------------------------------------------------------
(* Callback plumbing *)

None == <<>>
Some(frame) == <<frame>>

\* pd.read_csv(decode_file(contents)): a fresh frame holding the file's records.
read_csv(contents) == contents[1]

\* df = event_log if contents is None else pd.read_csv(decode_file(contents))
LoadFrame(contents, log) == IF contents = None THEN log ELSE read_csv(contents)

\* The callbacks storing the frame they loaded in the global event_log.
SharedLogReplaced(contents, log, df) == df

\* The object the global event_log names after a callback that left its local
\* frame object as df: without an upload df is the global object itself.
SharedLog(contents, log, df) == IF contents = None THEN df ELSE log

NoResult ==
    [cb |-> "none", uploaded |-> FALSE, kind |-> "none", msg |-> "",
     overview |-> <<>>, avg_times |-> <<>>, loops |-> <<>>,
     variants |-> <<>>, noncompliant |-> 0, issues |-> <<>>]

Result(cb, contents) ==
    [NoResult EXCEPT !.cb = cb, !.uploaded = (contents # None), !.kind = "ok"]

\* The callbacks catching another exception class than validate_data raises.
FailureNotCaught(cb, contents, v) ==
    [NoResult EXCEPT !.cb = cb, !.uploaded = (contents # <<>>),
                     !.kind = "raised", !.msg = v.exc]

\* except ValueError as e: return <error element>; any other exception
\* propagates out of the callback.
Failure(cb, contents, v) ==
    IF v.exc = "ValueError"
    THEN [Result(cb, contents) EXCEPT !.kind = "error", !.msg = v.msg]
    ELSE [Result(cb, contents) EXCEPT !.kind = "raised", !.msg = v.exc]

----------------------------------------------------------------------------
(* Grouping *)

\* The group keys of df.groupby('case_id'): missing keys are dropped and the
\* groups come in ascending key order.
CaseKeys(df) == Ascending({df.case_id[i] : i \in Rows(df)} \ {NaNCase})

ActivityKeys(df) == {df.activity[i] : i \in Rows(df)} \ {NaNAct}

\* The row positions of one case, in row order.
GroupPositions(df, case) ==
    SelectSeq(Index(NRows(df)), LAMBDA i : df.case_id[i] = case)

\* df.sort_values(by=['case_id', 'timestamp']): a new frame, rows in stable
\* ascending (case_id, timestamp) order.
sort_values(df) ==
    Take(df, StableArgsort(Tuple([i \in Rows(df) |->
                                     <<df.case_id[i], df.timestamp[i].t>>])))

----------------------------------------------------------------------------
(* detect_bottlenecks, lines 103-106 *)

\* df.groupby('case_id')['timestamp'].diff().dt.total_seconds(): per row the
\* seconds since the previous row of the same case, NaN for a case's first row.
GroupDiffSeconds(df) ==
    Tuple([i \in Rows(df) |->
        LET before == {j \in 1..(i - 1) : df.case_id[j] = df.case_id[i]}
        IN IF before = {} \/ IsNullCase(df.case_id[i])
           THEN NaNNum
           ELSE LET prev == CHOOSE j \in before : \A q \in before : q <= j
                IN Num(df.timestamp[i].t - df.timestamp[prev].t, 1)])

\* column / 60
Div60(col) ==
    Tuple([i \in 1..Len(col) |->
        IF col[i].k = "nan" THEN NaNNum ELSE Num(col[i].num, col[i].den * 60)])

\* df.groupby('activity')[col].mean(): one entry per activity; NaN cells are
\* skipped and a group without any number has mean NaN.  All cells of col
\* share one denominator.
GroupMean(df, col) ==
    [a \in ActivityKeys(df) |->
        LET cells == {i \in Rows(df) : df.activity[i] = a /\ df[col][i].k = "num"}
        IN IF cells = {} THEN NaNNum
           ELSE LET any == CHOOSE i \in cells : TRUE
                IN Num(SumOver(cells, [i \in cells |-> df[col][i].num]),
                       df[col][any].den * Cardinality(cells))]

\* The frame after lines 103-105.
BottleneckFrame(df) ==
    LET timestamp == ToDatetimeColumn(df)
        d1 == SetCol(df, "timestamp", timestamp)
        time_diff == GroupDiffSeconds(d1)
        d2 == SetCol(d1, "time_diff", time_diff)
        time_diff_minutes == Div60(time_diff)
    IN SetCol(d2, "time_diff_minutes", time_diff_minutes)

----------------------------------------------------------------------------
(* detect_loops, lines 121-129 *)

\* LoopCounts keeping every (case_id, activity) pair that occurs at all.
LoopCountsAtLeastOnce(df) ==
    {<<df.case_id[i], df.activity[i]>> : i \in Rows(df)}

\* groupby(['case_id', 'activity']).size() restricted to count > 1, as the set
\* of (case_id, activity) index entries kept.
LoopCounts(df) ==
    {ca \in {<<df.case_id[i], df.activity[i]>> : i \in Rows(df)} :
        Cardinality({i \in Rows(df) :
                        /\ df.case_id[i] = ca[1]
                        /\ df.activity[i] = ca[2]}) > 1}

\* loop_counts.groupby('case_id') with loop['activity'].unique() per case.
LoopDetails(counts) ==
    [case \in {ca[1] : ca \in counts} |->
        {ca[2] : ca \in {x \in counts : x[1] = case}}]

----------------------------------------------------------------------------
(* analyze_variants, lines 144-152 *)

\* df.groupby('case_id')['activity'].apply(tuple): one tuple per case, cases
\* in ascending order.
ApplyTuple(df) ==
    LET keys == CaseKeys(df)
    IN Tuple([n \in 1..Len(keys) |->
                 LET g == GroupPositions(df, keys[n])
                 IN Tuple([k \in 1..Len(g) |-> df.activity[g[k]]])])

\* value_counts sorting ascending and reversing the result, which puts equal
\* counts in reverse order of first appearance.
value_counts_reversed_ties(series) ==
    LET keys == Uniques(series)
        counts == Tuple([n \in 1..Len(keys) |->
                      Cardinality({i \in 1..Len(series) : series[i] = keys[n]})])
        order == Reverse(StableArgsort(Tuple([m \in 1..Len(keys) |-> <<counts[m], 0>>])))
    IN Tuple([n \in 1..Len(keys) |->
                 [variant |-> keys[order[n]], count |-> counts[order[n]]]])

\* Series.value_counts(): the distinct values in order of first appearance
\* with their counts, then sorted by count descending (the counts are
\* reversed, argsorted ascending and the order reversed again).
value_counts(series) ==
    LET keys == Uniques(series)
        counts == Tuple([n \in 1..Len(keys) |->
                      Cardinality({i \in 1..Len(series) : series[i] = keys[n]})])
        rev == Tuple(Reverse([n \in 1..Len(keys) |-> n]))
        sorter == StableArgsort(Tuple([m \in 1..Len(keys) |-> <<counts[rev[m]], 0>>]))
        order == Tuple(Reverse([n \in 1..Len(keys) |-> rev[sorter[n]]]))
    IN Tuple([n \in 1..Len(keys) |->
                 [variant |-> keys[order[n]], count |-> counts[order[n]]]])

\* variant_counts.head(10)
head(s, n) == SubSeq(s, 1, IF Len(s) < n THEN Len(s) ELSE n)

----------------------------------------------------------------------------
(* compliance_analysis, lines 169-176 *)

expected_sequence == PyTuple(activities)

\* df.groupby('case_id')['activity'].transform(lambda x: tuple(x)): the tuple
\* each group returns has the group's length, so it is laid over the group's
\* rows element by element: every row receives its own element of the tuple.
TransformTuple(df) ==
    Tuple([i \in Rows(df) |->
        LET g == GroupPositions(df, df.case_id[i])
            tup == [k \in 1..Len(g) |-> df.activity[g[k]]]
            at == CHOOSE k \in 1..Len(g) : g[k] = i
        IN PyStr(tup[at])])

\* The row positions of df[df['process_sequence'] != expected_sequence].
ComplianceIssues(df) ==
    SelectSeq(Index(NRows(df)),
              LAMBDA i : PyNe(df.process_sequence[i], expected_sequence))

\* compliance_issues[['case_id', 'process_sequence']].drop_duplicates()
IssueRecords(df, rows) ==
    Uniques(Tuple([n \in 1..Len(rows) |->
                      [case_id |-> df.case_id[rows[n]],
                       process_sequence |-> df.process_sequence[rows[n]]]]))

----------------------------------------------------------------------------------------------------------------------------------------
(* The callbacks.  Each is one request: contents is None or the uploaded     *)
(* file.  A callback body is given as the pair of its return value and the  *)
(* object the global event_log names when it returns.                        *)

UpdateDataOverview(contents, log) ==
    LET v == validate_data(LoadFrame(contents, log))
        df == v.df
    IN [log |-> SharedLog(contents, log, df),
        result |->
            IF v.exc # "none" THEN Failure("overview", contents, v)
            ELSE [Result("overview", contents) EXCEPT
                    !.msg = "Data Overview",
                    !.overview =
                        [rows |-> NRows(df),
                         columns |-> Cardinality(DOMAIN df),
                         cases |-> Cardinality({df.case_id[i] : i \in Rows(df)}),
                         activities |-> Cardinality({df.activity[i] : i \in Rows(df)}),
                         head |-> Take(df, head(Index(NRows(df)), HeadRows))]]]

DetectBottlenecks(contents, log) ==
    LET v == validate_data(LoadFrame(contents, log))
        df == IF v.exc # "none" THEN v.df ELSE BottleneckFrame(v.df)
    IN [log |-> SharedLog(contents, log, df),
        result |->
            IF v.exc # "none" THEN Failure("bottlenecks", contents, v)
            ELSE [Result("bottlenecks", contents) EXCEPT
                    !.msg = "Average Time Spent Per Activity",
                    !.avg_times = GroupMean(df, "time_diff_minutes")]]

DetectLoops(contents, log) ==
    LET v == validate_data(LoadFrame(contents, log))
        loop_counts == LoopCounts(sort_values(v.df))
    IN [log |-> SharedLog(contents, log, v.df),
        result |->
            IF v.exc # "none" THEN Failure("loops", contents, v)
            ELSE IF loop_counts = {}
            THEN [Result("loops", contents) EXCEPT !.msg = "No Loops Detected"]
            ELSE [Result("loops", contents) EXCEPT
                    !.msg = "Process Loops",
                    !.loops = LoopDetails(loop_counts)]]

AnalyzeVariants(contents, log) ==
    LET v == validate_data(LoadFrame(contents, log))
        variant_counts == value_counts(ApplyTuple(sort_values(v.df)))
    IN [log |-> SharedLog(contents, log, v.df),
        result |->
            IF v.exc # "none" THEN Failure("variants", contents, v)
            ELSE IF variant_counts = <<>>
            THEN [Result("variants", contents) EXCEPT
                    !.msg = "No Process Variants Found"]
            ELSE [Result("variants", contents) EXCEPT
                    !.msg = "Top 10 Process Variants",
                    !.variants = head(variant_counts, Top)]]

ComplianceAnalysis(contents, log) ==
    LET v == validate_data(LoadFrame(contents, log))
        process_sequence == TransformTuple(v.df)
        df == IF v.exc # "none" THEN v.df
              ELSE SetCol(v.df, "process_sequence", process_sequence)
        compliance_issues == ComplianceIssues(df)
    IN [log |-> SharedLog(contents, log, df),
        result |->
            IF v.exc # "none" THEN Failure("compliance", contents, v)
            ELSE [Result("compliance", contents) EXCEPT
                    !.msg = "Compliance Issues",
                    !.noncompliant =
                        Cardinality({df.case_id[compliance_issues[n]] :
                                        n \in 1..Len(compliance_issues)}),
                    !.issues = IssueRecords(df, compliance_issues)]]

\* One request served to its end.
Serve(out) ==
    /\ event_log' = out.log
    /\ last' = out.result
    /\ UNCHANGED <<log0, upload>>

update_data_overview(contents) == Serve(UpdateDataOverview(contents, event_log))

detect_bottlenecks(contents) == Serve(DetectBottlenecks(contents, event_log))

detect_loops(contents) == Serve(DetectLoops(contents, event_log))

analyze_variants(contents) == Serve(AnalyzeVariants(contents, event_log))

compliance_analysis(contents) == Serve(ComplianceAnalysis(contents, event_log))

----------------------------------------------------------------------------
(* Inputs *)

Row(case, activity, timestamp) ==
    [case_id |-> case, activity |-> activity, timestamp |-> timestamp]

\* Uploaded record sets that may be invalid: rows that are well-formed, rows
\* with one missing field, and rows with an unparseable timestamp.
RawRows ==
    {Row(1, "Start", StrTs(0)), Row(1, "Start", StrTs(60)),
     Row(NaNCase, "Start", StrTs(0)), Row(1, NaNAct, StrTs(0)),
     Row(1, "Start", NaNTs), Row(1, "Start", BadTs),
     Row(NaNCase, "Start", BadTs)}

UploadFrames ==
    {FrameOf(rows) : rows \in UNION {[1..n -> RawRows] : n \in 1..MaxUploadRows}}

\* Well-formed uploaded logs.
ValidRows ==
    [case_id : {1, 2},
     activity : {"Start", "Review"},
     timestamp : {StrTs(0), StrTs(60)}]

ValidFrames ==
    {FrameOf(rows) : rows \in UNION {[1..n -> ValidRows] : n \in 1..MaxLogRows}}

\* Logs of one or two cases, each following the reference process, leaving
\* out "Review", or passing "Review" twice; case c's events are c * MinGap
\* minutes apart; with rev the rows arrive in reverse order.
Steps(shape) ==
    CASE shape = "skip" -> <<"Start", "Approve", "End">>
      [] shape = "repeat" -> <<"Start", "Review", "Review", "Approve", "End">>
      [] OTHER -> activities

ProcessLog(shapes, rev) ==
    LET caseRows(c) == [j \in 1..Len(Steps(shapes[c])) |->
                           Row(c, Steps(shapes[c])[j],
                               StrTs((j - 1) * c * MinGap * 60))]
        rows == IF Len(shapes) = 1 THEN caseRows(1)
                ELSE caseRows(1) \o caseRows(2)
    IN FrameOf(IF rev THEN Reverse(rows) ELSE rows)

ProcessLogs ==
    {ProcessLog(shapes, rev) :
        shapes \in UNION {[1..n -> {"reference", "skip", "repeat"}] : n \in {1, 2}},
        rev \in BOOLEAN}

\* The v-th of the sixteen two-step sequences over the four activities.
VariantSeq(v) ==
    <<activities[((v - 1) % Len(activities)) + 1],
      activities[(((v - 1) \div Len(activities)) % Len(activities)) + 1]>>

\* A log of n two-event cases spread over d distinct sequences; with rev the
\* rows arrive in reverse order; with flip the later sequences are the
\* frequent ones.
VariantLog(n, d, rev, flip) ==
    LET seqOf(c) == VariantSeq(IF flip THEN d - ((c - 1) % d) ELSE ((c - 1) % d) + 1)
        rows == [i \in 1..(2 * n) |->
                    LET c == ((i - 1) \div 2) + 1
                        j == ((i - 1) % 2) + 1
                    IN [case_id |-> c,
                        activity |-> seqOf(c)[j],
                        timestamp |-> StrTs((j - 1) * 60)]]
    IN FrameOf(IF rev THEN Reverse(rows) ELSE rows)

VariantLogs ==
    {VariantLog(n, d, rev, flip) :
        n \in 1..MaxVarCases, d \in 1..MaxVarCases, rev \in BOOLEAN, flip \in BOOLEAN}

AnalysisLogs == ValidFrames \cup ProcessLogs \cup VariantLogs

----------------------------------------------------------------------------
(* The application: the module-level sample log, then any sequence of        *)
(* callback requests, each without an upload or with the user's file.        *)

Init ==
    /\ \E draw \in {<<MinDays, MinGap>>, <<MaxDays, MaxGap>>} :
           event_log = generate_sample_event_log(draw[1], draw[2])
    /\ log0 = event_log
    /\ upload \in UploadFrames
    /\ last = NoResult

Contents == {None, Some(upload)}

Next ==
    \/ \E contents \in Contents : update_data_overview(contents)
    \/ \E contents \in Contents : detect_bottlenecks(contents)
    \/ \E contents \in Contents : detect_loops(contents)
    \/ \E contents \in Contents : analyze_variants(contents)
    \/ \E contents \in Contents : compliance_analysis(contents)

Spec == Init /\ [][Next]_vars

(* The analyzers applied to well-formed uploaded logs. *)

InitAnalysis ==
    /\ event_log = generate_sample_event_log(MinDays, MinGap)
    /\ log0 = event_log
    /\ upload \in AnalysisLogs
    /\ last = NoResult

NextAnalysis ==
    \/ update_data_overview(Some(upload))
    \/ detect_bottlenecks(Some(upload))
    \/ detect_loops(Some(upload))
    \/ analyze_variants(Some(upload))
    \/ compliance_analysis(Some(upload))

SpecAnalysis == InitAnalysis /\ [][NextAnalysis]_vars

----------------------------------------------------------------------------
(* Vocabulary of the properties, stated over the records a request analyses *)

RequiredColumns == {"case_id", "activity", "timestamp"}
Analyzers == {"bottlenecks", "loops", "variants", "compliance"}

\* Some row lacks a required field.
MissingField(f) ==
    \E i \in Rows(f) :
        f.case_id[i] = NaNCase \/ f.activity[i] = NaNAct \/ f.timestamp[i] = NaNTs

\* Some row holds a timestamp that cannot be parsed.
BadTimestamp(f) == \E i \in Rows(f) : f.timestamp[i] = BadTs

Served(cb) == last.cb = cb /\ last.uploaded
Analysed(cb) == Served(cb) /\ last.kind = "ok"

NoPayload(r) ==
    /\ r.overview = <<>> /\ r.avg_times = <<>> /\ r.loops = <<>>
    /\ r.variants = <<>> /\ r.noncompliant = 0 /\ r.issues = <<>>

Cases(f) == {f.case_id[i] : i \in Rows(f)}

\* Row i comes before row j of the same case in stable ascending timestamp order.
TsBefore(f, i, j) ==
    /\ f.case_id[i] = f.case_id[j]
    /\ \/ f.timestamp[i].t < f.timestamp[j].t
       \/ f.timestamp[i].t = f.timestamp[j].t /\ i < j

\* The activities of case c in stable ascending timestamp order.
TsSequence(f, c) ==
    LET P == {i \in Rows(f) : f.case_id[i] = c}
    IN [k \in 1..Cardinality(P) |->
           f.activity[CHOOSE p \in P :
                          Cardinality({q \in P : TsBefore(f, q, p)}) = k - 1]]

HasPredecessor(f, j) == \E i \in Rows(f) : TsBefore(f, i, j)

\* The immediate predecessor of row j in its case's timestamp order.
Predecessor(f, j) ==
    CHOOSE i \in Rows(f) :
        /\ TsBefore(f, i, j)
        /\ \A k \in Rows(f) : TsBefore(f, k, j) => (k = i \/ TsBefore(f, k, i))

GapSeconds(f, j) == f.timestamp[j].t - f.timestamp[Predecessor(f, j)].t

\* The rows of activity a that have a predecessor.
Later(f, a) == {j \in Rows(f) : f.activity[j] = a /\ HasPredecessor(f, j)}

Occurrences(f, c, a) ==
    Cardinality({i \in Rows(f) : f.case_id[i] = c /\ f.activity[i] = a})

Recurring(f, c) == {a \in {f.activity[i] : i \in Rows(f)} : Occurrences(f, c, a) > 1}

----------------------------------------------------------------------------
(* Validation and the shared log *)

\* C1 (as stated): a record set with a missing case_id, activity or timestamp
\* in some row always fails validation with the missing-field error, never
\* with another error and never with success.
C1_MissingFieldErrorAlways ==
    (last.cb # "none" /\ last.uploaded /\ MissingField(upload))
        => (last.kind = "error" /\ last.msg = MissingMessage)

\* C1 (amended): such a record set never validates; it fails with the
\* missing-field error when every present timestamp parses, and with the
\* timestamp conversion error when some row holds an unparseable timestamp.
C1_MissingFieldNeverValidates ==
    (last.cb # "none" /\ last.uploaded /\ MissingField(upload))
        => /\ last.kind = "error"
           /\ last.msg = IF BadTimestamp(upload)
                         THEN TimestampMessage ELSE MissingMessage

C1_Witness ==
    /\ last.cb # "none" /\ last.uploaded
    /\ \E i, j \in Rows(upload) :
           /\ i # j
           /\ upload.activity[i] = NaNAct
           /\ upload.timestamp[j] = BadTs
    /\ last.msg = TimestampMessage

\* C2: the requests served leave the shared log with exactly the columns
\* case_id, activity and timestamp and with the rows and values it had before
\* the first request.
C2_SharedLogNotMutated ==
    /\ DOMAIN event_log = RequiredColumns
    /\ event_log = log0

\* C3: a request whose upload fails validation leaves the shared log exactly
\* as it was before the request.
C3_FailedUploadKeepsLog ==
    [][(last'.uploaded /\ last'.kind = "error") => event_log' = event_log]_vars

C3_Witness ==
    /\ last.uploaded /\ last.kind = "error"
    /\ "process_sequence" \in DOMAIN event_log

----------------------------------------------------------------------------
(* The analyzers, on well-formed uploaded logs *)

Flagged(c) == \E n \in 1..Len(last.issues) : last.issues[n].case_id = c

Deviates(f, c) == TsSequence(f, c) # activities

\* C5: a case is flagged as non-compliant exactly when its activities, taken
\* in stable ascending timestamp order, differ from (Start, Review, Approve,
\* End).
C5_FlaggedIffSequenceDeviates ==
    Analysed("compliance") =>
        \A c \in Cases(upload) : Flagged(c) <=> Deviates(upload, c)

\* C6: the non-compliant count is the number of deviating cases, and a
\* deviant sequence shared by two distinct cases is listed once in the
\* deduplicated report.
C6_SharedSequenceListedOnce ==
    Analysed("compliance") =>
        /\ last.noncompliant =
               Cardinality({c \in Cases(upload) : Deviates(upload, c)})
        /\ \A c1, c2 \in Cases(upload) :
               (/\ c1 # c2
                /\ Deviates(upload, c1)
                /\ TsSequence(upload, c1) = TsSequence(upload, c2))
               => Cardinality({n \in 1..Len(last.issues) :
                      last.issues[n].process_sequence =
                          PyTuple(TsSequence(upload, c1))}) = 1

\* C7: the average reported for an activity is the mean, over that
\* activity's events that have a predecessor in their case's stable timestamp
\* order, of the minutes elapsed since that predecessor; no average is
\* negative.
C7_GapsFollowTimestampOrder ==
    Analysed("bottlenecks") =>
        \A a \in {upload.activity[i] : i \in Rows(upload)} :
            Later(upload, a) # {} =>
                /\ a \in DOMAIN last.avg_times
                /\ last.avg_times[a].k = "num"
                /\ last.avg_times[a].num >= 0
                /\ last.avg_times[a].num * 60 * Cardinality(Later(upload, a)) =
                       last.avg_times[a].den *
                           SumOver(Later(upload, a),
                                   [j \in Later(upload, a) |-> GapSeconds(upload, j)])

\* v comes before w in the ranking: more cases, or as many and first met in
\* an earlier case (cases scanned in ascending case_id order).
CountOf(f, v) == Cardinality({c \in Cases(f) : TsSequence(f, c) = v})

FirstCase(f, v) ==
    CHOOSE c \in Cases(f) :
        /\ TsSequence(f, c) = v
        /\ \A d \in Cases(f) : TsSequence(f, d) = v => c <= d

RanksBefore(f, v, w) ==
    \/ CountOf(f, v) > CountOf(f, w)
    \/ CountOf(f, v) = CountOf(f, w) /\ FirstCase(f, v) < FirstCase(f, w)

VariantsOf(f) == {TsSequence(f, c) : c \in Cases(f)}

C9_LoopsAreRepeatedActivities ==
    Analysed("loops") =>
        LET looping == {c \in Cases(upload) : Recurring(upload, c) # {}}
        IN /\ DOMAIN last.loops = looping
           /\ \A c \in looping : last.loops[c] = Recurring(upload, c)
           /\ (looping = {}) <=> (last.msg = "No Loops Detected")

C9_Witness ==
    /\ Analysed("loops")
    /\ \E c, d \in Cases(upload) :
           /\ Recurring(upload, c) # {}
           /\ Recurring(upload, d) = {}
           /\ last.loops[c] # {upload.activity[i] :
                                 i \in {j \in Rows(upload) : upload.case_id[j] = c}}

\* C10: an activity that is the first event of its case wherever it occurs is
\* absent from the bottleneck result.
C10_AlwaysFirstActivityAbsent ==
    Analysed("bottlenecks") =>
        \A a \in {upload.activity[i] : i \in Rows(upload)} :
            Later(upload, a) = {} => a \notin DOMAIN last.avg_times

====
